---------------------------- MODULE Spec2Model ----------------------------
(***************************************************************************)
(* A model of the pokemon-api creation workflow:                           *)
(*   - pokemonService (CreatePokemon, CreatePokemonFlexible,               *)
(*     extractPokemonName),                                                *)
(*   - PokemonRepository (GetByName, Create) over a table whose name       *)
(*     column is UNIQUE NOT NULL,                                          *)
(*   - pokeAPIClient.GetPokemonData over a remote endpoint whose answer    *)
(*     is chosen by the environment.                                       *)
(*                                                                         *)
(* Strings that the code transforms (names, identifiers) are sequences of  *)
(* one-character strings, so that strings.TrimSpace and strings.ToLower    *)
(* are computed.  Error messages are sequences of text chunks, so that     *)
(* fmt.Errorf("prefix: %w", err) is the concatenation prefix \o cause.     *)
(* A Go pointer or error that may be nil is a sequence of length 0 (nil)   *)
(* or 1 (the value).  The CreatedAt/UpdatedAt columns are left out: no     *)
(* operation of the service reads them.                                    *)
(***************************************************************************)
EXTENDS Naturals, Sequences, FiniteSets, TLC

VARIABLES
    store,         \* the pokemons table: a set of Pokemon rows
    nextID,        \* the next value of the id sequence (SERIAL PRIMARY KEY)
    pc,            \* pc[p]: where goroutine p stands in its create call
    entry,         \* entry[p]: the service method p was called on
    freq,          \* freq[p]: the FlexiblePokemonRequest p was called with
    req,           \* req[p]: the CreatePokemonRequest CreatePokemon runs on
    present,       \* present[p]: a row named req.Name was in the table when
                   \*   p's GetByName ran (history, read by no action)
    existing,      \* existing[p]: what repository.GetByName returned to p
    externalData,  \* externalData[p]: what GetPokemonData returned to p
    createErr,     \* createErr[p]: what repository.Create returned to p
    result,        \* result[p]: the (pokemon, error) pair p's call returned
    calls,         \* calls[p]: the collaborator calls p's call has made
    started,       \* the number of create calls begun so far
    overlapped,    \* overlapped[p]: another goroutine was inside a create
                   \*   call during p's call (history, read by no action)
    xin,           \* the input of the run of one function on its own
    xout,          \* its output
    xpc            \* "input" before the run, "done" after

vars == <<store, nextID, pc, entry, freq, req, present, existing, externalData,
          createErr, result, calls, started, overlapped, xin, xout, xpc>>

-----------------------------------------------------------------------------
(* Bounds *)

\* Longest name string of the extractPokemonName runs.
MaxLen == 2

\* The create calls a run makes in all, two of them at a time at most.
MaxCalls == 2

-----------------------------------------------------------------------------
(* Strings *)

Chars == {" ", "A", "a"}

WhiteSpace == {" ", "\t", "\n", "\r"}

RECURSIVE StringsUpTo(_)
StringsUpTo(n) ==
    IF n = 0 THEN {<<>>}
    ELSE LET shorter == StringsUpTo(n - 1)
         IN  shorter \cup {Append(s, c) : s \in shorter, c \in Chars}

\* unicode.ToLower on one character
LowerChar(c) ==
    CASE c = "A" -> "a"
      [] OTHER   -> c

\* strings.ToLower
ToLower(s) == [i \in 1..Len(s) |-> LowerChar(s[i])]

RECURSIVE TrimLeft(_)
TrimLeft(s) ==
    IF s # <<>> /\ Head(s) \in WhiteSpace THEN TrimLeft(Tail(s)) ELSE s

RECURSIVE TrimRight(_)
TrimRight(s) ==
    IF s # <<>> /\ s[Len(s)] \in WhiteSpace
    THEN TrimRight(SubSeq(s, 1, Len(s) - 1))
    ELSE s

\* strings.TrimSpace
TrimSpace(s) == TrimRight(TrimLeft(s))

-----------------------------------------------------------------------------
(* domain.FlexiblePokemonRequest and extractPokemonName *)

\* A value of the map[string]interface{} under one key: no such key, a value
\* that is not a string (a number, null, an object), or a string.
Absent == [kind |-> "absent", str |-> <<>>]
NonString == [kind |-> "other", str |-> <<>>]
Str(s) == [kind |-> "string", str |-> s]

MapValues(n) == {Absent, NonString} \cup {Str(s) : s \in StringsUpTo(n)}

\* The Pokemon field: a nil map, or a map read under its keys "name" and
\* "pokemon".
NilMap == [nil |-> TRUE, name |-> Absent, pokemon |-> Absent]
Map(n, p) == [nil |-> FALSE, name |-> n, pokemon |-> p]

\* extractPokemonName with the nested names trimmed and not lowercased
extractPokemonNameNestedAsWritten(input) ==
    IF input.Name # <<>> THEN ToLower(TrimSpace(input.Name))
    ELSE IF ~input.Pokemon.nil /\ input.Pokemon.name.kind = "string"
         THEN TrimSpace(input.Pokemon.name.str)
    ELSE IF ~input.Pokemon.nil /\ input.Pokemon.pokemon.kind = "string"
         THEN TrimSpace(input.Pokemon.pokemon.str)
    ELSE <<>>

extractPokemonName(input) ==
    IF input.Name # <<>> THEN ToLower(TrimSpace(input.Name))
    ELSE IF ~input.Pokemon.nil /\ input.Pokemon.name.kind # "absent"
                               /\ input.Pokemon.name.kind = "string"
         THEN ToLower(TrimSpace(input.Pokemon.name.str))
    ELSE IF ~input.Pokemon.nil /\ input.Pokemon.pokemon.kind = "string"
         THEN ToLower(TrimSpace(input.Pokemon.pokemon.str))
    ELSE <<>>

-----------------------------------------------------------------------------
(* Error messages *)

ErrDuplicateName == <<"pokemon with this name already exists">>
ErrNameRequired == <<"pokemon name is required">>
ErrNotFound == <<"pokemon not found">>
FetchPrefix == <<"failed to fetch Pokemon data: ">>
SavePrefix == <<"failed to save Pokemon: ">>

\* What the database driver reports: a failure of the connection or the
\* statement, and the violation of the unique index on name.
ErrDatabase == <<"database error">>
ErrUniqueViolation == <<"duplicate key value violates unique constraint">>

\* What net/http reports when the request fails or times out.
ErrTransport == <<"context deadline exceeded">>
\* What encoding/json reports on a body it cannot decode.
ErrJSON == <<"invalid character">>

Digits == <<"0", "1", "2", "3", "4", "5", "6", "7", "8", "9">>

\* The %d verb on a non-negative integer
RECURSIVE Decimal(_)
Decimal(n) ==
    IF n < 10 THEN <<Digits[n + 1]>>
    ELSE Append(Decimal(n \div 10), Digits[(n % 10) + 1])

\* fmt.Errorf(prefix + "%w", err)
Wrap(prefix, err) == prefix \o err

\* A (value, error) pair of Go; nil is the empty sequence.
Pair(value, err) == [pokemon |-> value, err |-> err]
Nothing == <<>>

-----------------------------------------------------------------------------
(* PokemonRepository over the pokemons table *)

\* The row db.Where("name = ?", name).First(..) reads: First orders by the
\* primary key.
FirstByName(table, name) ==
    LET rows == {r \in table : r.Name = name}
    IN  CHOOSE r \in rows : \A o \in rows : r.ID <= o.ID

\* GetByName as it would be if it found no row
GetByNameFindingNothing(table, name, dbOK) ==
    IF ~dbOK THEN Pair(Nothing, <<ErrDatabase>>)
    ELSE Pair(Nothing, <<ErrNotFound>>)

\* GetByName as it would be under a case-insensitive comparison of names
GetByNameIgnoringCase(table, name, dbOK) ==
    IF ~dbOK THEN Pair(Nothing, <<ErrDatabase>>)
    ELSE IF \E r \in table : ToLower(r.Name) = ToLower(name)
         THEN Pair(<<CHOOSE r \in table : ToLower(r.Name) = ToLower(name)>>,
                   Nothing)
         ELSE Pair(Nothing, <<ErrNotFound>>)

\* dbOK: the statement reached the database and ran.
GetByName(table, name, dbOK) ==
    IF ~dbOK THEN Pair(Nothing, <<ErrDatabase>>)
    ELSE IF \E r \in table : r.Name = name
         THEN Pair(<<FirstByName(table, name)>>, Nothing)
         ELSE Pair(Nothing, <<ErrNotFound>>)

\* The table as it would be without the unique index
NoUniqueIndex(table, name) == TRUE

\* The unique index on pokemons.name (gorm:"unique;not null", UNIQUE NOT NULL).
UniqueNameHolds(table, name) == \A r \in table : r.Name # name

\* Create as it would be if the row stayed in the table when the insert
\* reports a database error
CreateKeepingFailedInsert(table, id, pokemon, dbOK) ==
    IF ~UniqueNameHolds(table, pokemon.Name)
    THEN [table |-> table, pokemon |-> pokemon,
          err |-> IF dbOK THEN <<ErrUniqueViolation>> ELSE <<ErrDatabase>>]
    ELSE LET row == [pokemon EXCEPT !.ID = id]
         IN  [table |-> table \cup {row},
              pokemon |-> IF dbOK THEN row ELSE pokemon,
              err |-> IF dbOK THEN Nothing ELSE <<ErrDatabase>>]

\* Create as it would be with the id not written back to *pokemon
CreateWithoutWriteBack(table, id, pokemon, dbOK) ==
    IF ~dbOK
    THEN [table |-> table, pokemon |-> pokemon, err |-> <<ErrDatabase>>]
    ELSE IF ~UniqueNameHolds(table, pokemon.Name)
    THEN [table |-> table, pokemon |-> pokemon, err |-> <<ErrUniqueViolation>>]
    ELSE LET row == [pokemon EXCEPT !.ID = id]
         IN  [table |-> table \cup {row}, pokemon |-> pokemon, err |-> Nothing]

\* Create as it would be if a conflict on name replaced the row that is there
CreateReplacingConflict(table, id, pokemon, dbOK) ==
    IF ~dbOK
    THEN [table |-> table, pokemon |-> pokemon, err |-> <<ErrDatabase>>]
    ELSE LET row == [pokemon EXCEPT !.ID = id]
         IN  [table |-> {r \in table : r.Name # pokemon.Name} \cup {row},
              pokemon |-> row, err |-> Nothing]

\* Create as it would be with the conflict on name ignored (no row, no error)
CreateIgnoringConflict(table, id, pokemon, dbOK) ==
    IF ~dbOK
    THEN [table |-> table, pokemon |-> pokemon, err |-> <<ErrDatabase>>]
    ELSE IF ~UniqueNameHolds(table, pokemon.Name)
    THEN [table |-> table, pokemon |-> pokemon, err |-> Nothing]
    ELSE LET row == [pokemon EXCEPT !.ID = id]
         IN  [table |-> table \cup {row}, pokemon |-> row, err |-> Nothing]

\* db.Create(pokemon): the row is inserted with the next id of the sequence
\* and the id is written back to *pokemon, or the insert fails and the table
\* is left as it was.  [table, pokemon, err]
Create(table, id, pokemon, dbOK) ==
    IF ~dbOK
    THEN [table |-> table, pokemon |-> pokemon, err |-> <<ErrDatabase>>]
    ELSE IF ~UniqueNameHolds(table, pokemon.Name)
    THEN [table |-> table, pokemon |-> pokemon, err |-> <<ErrUniqueViolation>>]
    ELSE LET row == [pokemon EXCEPT !.ID = id]
         IN  [table |-> table \cup {row}, pokemon |-> row, err |-> Nothing]

\* GetByID as it would be if it read the first row whatever the id
GetByIDFirstRow(table, id, dbOK) ==
    IF ~dbOK THEN Pair(Nothing, <<ErrDatabase>>)
    ELSE IF table # {}
         THEN Pair(<<CHOOSE r \in table : \A o \in table : r.ID <= o.ID>>,
                   Nothing)
         ELSE Pair(Nothing, <<ErrNotFound>>)

\* db.First(&pokemon, id): the row of that primary key, "pokemon not found"
\* for gorm.ErrRecordNotFound, any other error as it came.
GetByID(table, id, dbOK) ==
    IF ~dbOK THEN Pair(Nothing, <<ErrDatabase>>)
    ELSE IF \E r \in table : r.ID = id
         THEN Pair(<<CHOOSE r \in table : r.ID = id>>, Nothing)
         ELSE Pair(Nothing, <<ErrNotFound>>)

\* The rows of the table in every order: Find has no ORDER BY.
Orderings(table) ==
    {s \in [1..Cardinality(table) -> table] :
        \A i, j \in DOMAIN s : i # j => s[i] # s[j]}

\* List as it would be with the first row of the result skipped
ListSkippingFirst(table, dbOK) ==
    IF ~dbOK THEN {Pair(Nothing, <<ErrDatabase>>)}
    ELSE {Pair(Tail(s), Nothing) : s \in Orderings(table) \ {<<>>}}
             \cup {Pair(<<>>, Nothing)}

\* db.Find(&pokemon): every row, or the error and no rows.  The set of the
\* results the database may give.
List(table, dbOK) ==
    IF ~dbOK THEN {Pair(Nothing, <<ErrDatabase>>)}
    ELSE {Pair(s, Nothing) : s \in Orderings(table)}

-----------------------------------------------------------------------------
(* pokeAPIClient.GetPokemonData *)

StatusOK == 200
StatusNotFound == 404
StatusInternalServerError == 500

BaseURL == <<"https://pokeapi.co/api/v2">>

NoData == [ID |-> 0, Name |-> <<>>, Height |-> 0, Weight |-> 0,
           BaseExperience |-> 0, Types |-> <<>>]

\* What the remote endpoint may answer: no answer within the timeout, or a
\* status and a body, which decodes to an ExternalPokemonResponse or not.
Remote(transportOK, status, decodable, data) ==
    [transportOK |-> transportOK, status |-> status,
     decodable |-> decodable, data |-> data]

CatalogEntries ==
    { [ID |-> 25, Name |-> <<"a">>, Height |-> 4, Weight |-> 60,
       BaseExperience |-> 112, Types |-> <<"electric">>],
      [ID |-> 6, Name |-> <<"A">>, Height |-> 17, Weight |-> 905,
       BaseExperience |-> 267, Types |-> <<"dragon", "electric">>] }

RemoteAnswers ==
    { Remote(FALSE, 0, FALSE, NoData),
      Remote(TRUE, StatusNotFound, FALSE, NoData),
      Remote(TRUE, StatusInternalServerError, FALSE, NoData),
      Remote(TRUE, StatusOK, FALSE, NoData) }
    \cup { Remote(TRUE, StatusOK, TRUE, e) : e \in CatalogEntries }

\* The URL as it would be with the identifier used as it was given
RequestURLAsGiven(identifier) == BaseURL \o <<"/pokemon/">> \o identifier

\* GetPokemonData as it would be with the two status tests in the other
\* order
GetPokemonDataStatusOKFirst(identifier, remote) ==
    LET id == ToLower(TrimSpace(identifier))
    IN  IF ~remote.transportOK
        THEN [data |-> Nothing,
              err |-> <<Wrap(<<"failed to make request to PokeAPI: ">>,
                             ErrTransport)>>]
        ELSE IF remote.status # StatusOK
        THEN [data |-> Nothing,
              err |-> << <<"PokeAPI returned status ">>
                         \o Decimal(remote.status) >>]
        ELSE IF remote.status = StatusNotFound
        THEN [data |-> Nothing,
              err |-> << <<"pokemon '">> \o id \o <<"' not found">> >>]
        ELSE IF ~remote.decodable
        THEN [data |-> Nothing,
              err |-> <<Wrap(<<"failed to decode PokeAPI response: ">>,
                             ErrJSON)>>]
        ELSE [data |-> <<remote.data>>, err |-> Nothing]

RequestURL(identifier) ==
    BaseURL \o <<"/pokemon/">> \o ToLower(TrimSpace(identifier))

\* [data, err]: data is meaningful when err is nil.
GetPokemonData(identifier, remote) ==
    LET id == ToLower(TrimSpace(identifier))
    IN  IF ~remote.transportOK
        THEN [data |-> Nothing,
              err |-> <<Wrap(<<"failed to make request to PokeAPI: ">>,
                             ErrTransport)>>]
        ELSE IF remote.status = StatusNotFound
        THEN [data |-> Nothing,
              err |-> << <<"pokemon '">> \o id \o <<"' not found">> >>]
        ELSE IF remote.status # StatusOK
        THEN [data |-> Nothing,
              err |-> << <<"PokeAPI returned status ">>
                         \o Decimal(remote.status) >>]
        ELSE IF ~remote.decodable
        THEN [data |-> Nothing,
              err |-> <<Wrap(<<"failed to decode PokeAPI response: ">>,
                             ErrJSON)>>]
        ELSE [data |-> <<remote.data>>, err |-> Nothing]

-----------------------------------------------------------------------------
(* The requests the goroutines are called with *)

Procs == {"g1", "g2"}

Requests ==
    { [Name |-> <<"a">>, Type1 |-> "fire", Type2 |-> "flying"],
      [Name |-> <<" ", "A">>, Type1 |-> "water", Type2 |-> ""] }

NoRequest == [Name |-> <<>>, Type1 |-> "", Type2 |-> ""]

Flexible(name, type1, type2, pokemon) ==
    [Name |-> name, Type1 |-> type1, Type2 |-> type2, Pokemon |-> pokemon]

FlexibleRequests ==
    { Flexible(<<"A">>, "fire", "flying", Map(Str(<<"a", "a">>), Absent)),
      Flexible(<<>>, "water", "", Map(Str(<<"a", " ">>), Str(<<"A">>))),
      Flexible(<<>>, "fire", "", Map(NonString, Str(<<"A">>))),
      Flexible(<<>>, "grass", "", NilMap),
      Flexible(<<" ">>, "fire", "", Map(Str(<<"a">>), Absent)),
      Flexible(<<>>, "fire", "", Map(Str(<<>>), Str(<<"a">>))) }

NoFlexible == Flexible(<<>>, "", "", NilMap)

NoResult == Pair(Nothing, Nothing)
NoFetch == [data |-> Nothing, err |-> Nothing]

Call(op, arg) == [op |-> op, arg |-> arg]

\* The test with its comparison inverted
NameRequiredInverted(pokemonName) == pokemonName # <<>>

\* pokemonName == "" in CreatePokemonFlexible
NameRequired(pokemonName) == pokemonName = <<>>

\* The test with err != nil in the place of err == nil
AlreadyExistsOnError(got) == got.err # Nothing /\ got.pokemon # Nothing

\* The test as it would be if only "not found" counted as no record
AlreadyExistsUnlessNotFound(got) == got.err # <<ErrNotFound>>

\* err == nil && existingPokemon != nil in CreatePokemon
AlreadyExists(got) == got.err = Nothing /\ got.pokemon # Nothing

\* The return with the cause left out of the message
FetchFailedNoCause(err) == Pair(Nothing, <<FetchPrefix>>)

\* return nil, fmt.Errorf("failed to fetch Pokemon data: %w", err)
FetchFailed(err) == Pair(Nothing, <<Wrap(FetchPrefix, err[1])>>)

\* The returns with the built record handed back beside the error
CreateReturnsRecordWithError(pokemon, err) ==
    IF err # Nothing
    THEN Pair(<<pokemon>>, <<Wrap(SavePrefix, err[1])>>)
    ELSE Pair(<<pokemon>>, Nothing)

\* The two returns that follow s.repository.Create(pokemon)
CreateReturns(pokemon, err) ==
    IF err # Nothing
    THEN Pair(Nothing, <<Wrap(SavePrefix, err[1])>>)
    ELSE Pair(<<pokemon>>, Nothing)

\* The record named by the request instead of the catalog entry
NewPokemonNamedByRequest(r, data) ==
    [ID |-> 0, Name |-> r.Name, Type1 |-> r.Type1, Type2 |-> r.Type2,
     Height |-> data.Height, Weight |-> data.Weight,
     BaseExp |-> data.BaseExperience]

\* The domain.Pokemon CreatePokemon builds from the request and the entry
NewPokemon(r, data) ==
    [ID |-> 0, Name |-> data.Name, Type1 |-> r.Type1, Type2 |-> r.Type2,
     Height |-> data.Height, Weight |-> data.Weight,
     BaseExp |-> data.BaseExperience]

-----------------------------------------------------------------------------
(* The state machine *)

Init ==
    /\ store = {}
    /\ nextID = 1
    /\ pc = [p \in Procs |-> "idle"]
    /\ entry = [p \in Procs |-> "none"]
    /\ freq = [p \in Procs |-> NoFlexible]
    /\ req = [p \in Procs |-> NoRequest]
    /\ present = [p \in Procs |-> FALSE]
    /\ existing = [p \in Procs |-> NoResult]
    /\ externalData = [p \in Procs |-> NoFetch]
    /\ createErr = [p \in Procs |-> Nothing]
    /\ result = [p \in Procs |-> NoResult]
    /\ calls = [p \in Procs |-> <<>>]
    /\ started = 0
    /\ overlapped = [p \in Procs |-> FALSE]
    /\ xin = NoFlexible
    /\ xout = <<>>
    /\ xpc = "off"

xvars == <<xin, xout, xpc>>

Running(p) == pc[p] \in {"GetByName", "GetPokemonData", "Create"}

\* p's call begins: it overlaps every call that is running.
Begin(p) ==
    /\ started' = started + 1
    /\ overlapped' = [q \in Procs |->
                        IF q = p THEN \E o \in Procs \ {p} : Running(o)
                        ELSE overlapped[q] \/ Running(q)]

\* Goroutine p is called on CreatePokemon(r): its first statement is the
\* GetByName call.
CallCreatePokemon(p, r) ==
    /\ pc[p] = "idle"
    /\ started < MaxCalls
    /\ Begin(p)
    /\ entry' = [entry EXCEPT ![p] = "CreatePokemon"]
    /\ req' = [req EXCEPT ![p] = r]
    /\ pc' = [pc EXCEPT ![p] = "GetByName"]
    /\ UNCHANGED <<store, nextID, freq, present, existing, externalData,
                   createErr, result, calls, xvars>>

\* CallCreatePokemonFlexible as it would be with the request's own name
\* field, not the resolved name, handed to CreatePokemon
CallCreatePokemonFlexibleOwnName(p, f) ==
    /\ pc[p] = "idle"
    /\ started < MaxCalls
    /\ Begin(p)
    /\ entry' = [entry EXCEPT ![p] = "CreatePokemonFlexible"]
    /\ freq' = [freq EXCEPT ![p] = f]
    /\ LET pokemonName == extractPokemonName(f)
       IN  IF NameRequired(pokemonName)
           THEN /\ result' = [result EXCEPT
                                ![p] = Pair(Nothing, <<ErrNameRequired>>)]
                /\ pc' = [pc EXCEPT ![p] = "done"]
                /\ UNCHANGED req
           ELSE /\ req' = [req EXCEPT ![p] = [Name |-> f.Name,
                                              Type1 |-> f.Type1,
                                              Type2 |-> f.Type2]]
                /\ pc' = [pc EXCEPT ![p] = "GetByName"]
                /\ UNCHANGED result
    /\ UNCHANGED <<store, nextID, present, existing, externalData,
                   createErr, calls, xvars>>

\* Goroutine p is called on CreatePokemonFlexible(f): the name is resolved,
\* an empty name returns at once, any other is handed to CreatePokemon.
CallCreatePokemonFlexible(p, f) ==
    /\ pc[p] = "idle"
    /\ started < MaxCalls
    /\ Begin(p)
    /\ entry' = [entry EXCEPT ![p] = "CreatePokemonFlexible"]
    /\ freq' = [freq EXCEPT ![p] = f]
    /\ LET pokemonName == extractPokemonName(f)
       IN  IF NameRequired(pokemonName)
           THEN /\ result' = [result EXCEPT
                                ![p] = Pair(Nothing, <<ErrNameRequired>>)]
                /\ pc' = [pc EXCEPT ![p] = "done"]
                /\ UNCHANGED req
           ELSE /\ req' = [req EXCEPT ![p] = [Name |-> pokemonName,
                                              Type1 |-> f.Type1,
                                              Type2 |-> f.Type2]]
                /\ pc' = [pc EXCEPT ![p] = "GetByName"]
                /\ UNCHANGED result
    /\ UNCHANGED <<store, nextID, present, existing, externalData,
                   createErr, calls, xvars>>

\* s.repository.GetByName(req.Name) and the branch on what it returned
DoGetByName(p) ==
    /\ pc[p] = "GetByName"
    /\ \E dbOK \in BOOLEAN :
         LET got == GetByName(store, req[p].Name, dbOK)
         IN  /\ existing' = [existing EXCEPT ![p] = got]
             /\ IF AlreadyExists(got)
                THEN /\ result' = [result EXCEPT
                                     ![p] = Pair(Nothing, <<ErrDuplicateName>>)]
                     /\ pc' = [pc EXCEPT ![p] = "done"]
                ELSE /\ pc' = [pc EXCEPT ![p] = "GetPokemonData"]
                     /\ UNCHANGED result
    /\ present' = [present EXCEPT
                     ![p] = \E r \in store : r.Name = req[p].Name]
    /\ calls' = [calls EXCEPT
                   ![p] = Append(@, Call("GetByName", req[p].Name))]
    /\ UNCHANGED <<store, nextID, entry, freq, req, externalData, createErr,
                   started, overlapped, xvars>>

\* DoGetPokemonData as it would be if a failed fetch were tried again
DoGetPokemonDataRetrying(p) ==
    /\ pc[p] = "GetPokemonData"
    /\ \E remote \in RemoteAnswers :
         LET got == GetPokemonData(req[p].Name, remote)
         IN  /\ externalData' = [externalData EXCEPT ![p] = got]
             /\ pc' = [pc EXCEPT ![p] = IF got.err # Nothing
                                        THEN "GetPokemonData" ELSE "Create"]
    /\ calls' = [calls EXCEPT
                   ![p] = Append(@, Call("GetPokemonData", req[p].Name))]
    /\ UNCHANGED <<store, nextID, entry, freq, req, present, existing,
                   createErr, result, started, overlapped, xvars>>

\* DoGetPokemonData as it would be if the call waited for the catalog to
\* answer without an error
DoGetPokemonDataUntilAnswered(p) ==
    /\ pc[p] = "GetPokemonData"
    /\ \E remote \in RemoteAnswers :
         LET got == GetPokemonData(req[p].Name, remote)
         IN  /\ externalData' = [externalData EXCEPT ![p] = got]
             /\ pc' = [pc EXCEPT ![p] = IF got.err # Nothing
                                        THEN "GetPokemonData" ELSE "Create"]
             /\ calls' = [calls EXCEPT
                            ![p] = IF Len(calls[p]) >= 2 THEN @
                                   ELSE Append(@, Call("GetPokemonData",
                                                       req[p].Name))]
    /\ UNCHANGED <<store, nextID, entry, freq, req, present, existing,
                   createErr, result, started, overlapped, xvars>>

\* s.apiClient.GetPokemonData(req.Name) and the branch on its error
DoGetPokemonData(p) ==
    /\ pc[p] = "GetPokemonData"
    /\ \E remote \in RemoteAnswers :
         LET got == GetPokemonData(req[p].Name, remote)
         IN  /\ externalData' = [externalData EXCEPT ![p] = got]
             /\ IF got.err # Nothing
                THEN /\ result' = [result EXCEPT
                                     ![p] = FetchFailed(got.err)]
                     /\ pc' = [pc EXCEPT ![p] = "done"]
                ELSE /\ pc' = [pc EXCEPT ![p] = "Create"]
                     /\ UNCHANGED result
    /\ calls' = [calls EXCEPT
                   ![p] = Append(@, Call("GetPokemonData", req[p].Name))]
    /\ UNCHANGED <<store, nextID, entry, freq, req, present, existing,
                   createErr, started, overlapped, xvars>>

\* The record is built, s.repository.Create(pokemon) runs, and the call
\* returns.  A rejected insert may have drawn a value of the id sequence.
DoCreate(p) ==
    /\ pc[p] = "Create"
    /\ LET pokemon == NewPokemon(req[p], externalData[p].data[1])
       IN  /\ \E dbOK \in BOOLEAN :
                LET got == Create(store, nextID, pokemon, dbOK)
                IN  /\ store' = got.table
                    /\ createErr' = [createErr EXCEPT ![p] = got.err]
                    /\ result' = [result EXCEPT
                                    ![p] = CreateReturns(got.pokemon, got.err)]
                    /\ IF got.err # Nothing
                       THEN \E drawn \in BOOLEAN :
                              nextID' = IF drawn /\ dbOK THEN nextID + 1
                                        ELSE nextID
                       ELSE nextID' = nextID + 1
           /\ calls' = [calls EXCEPT
                          ![p] = Append(@, Call("Create", pokemon.Name))]
    /\ pc' = [pc EXCEPT ![p] = "done"]
    /\ UNCHANGED <<entry, freq, req, present, existing, externalData,
                   started, overlapped, xvars>>

\* Goroutine p is called on GetPokemon(id): the one statement is the GetByID
\* call, whose answer is returned as it is.
CallGetPokemon(p, id) ==
    /\ pc[p] = "idle"
    /\ started < MaxCalls
    /\ started' = started + 1
    /\ entry' = [entry EXCEPT ![p] = "GetPokemon"]
    /\ \E dbOK \in BOOLEAN :
         result' = [result EXCEPT ![p] = GetByID(store, id, dbOK)]
    /\ calls' = [calls EXCEPT ![p] = <<Call("GetByID", Decimal(id))>>]
    /\ pc' = [pc EXCEPT ![p] = "done"]
    /\ UNCHANGED <<store, nextID, freq, req, present, existing, externalData,
                   createErr, overlapped, xvars>>

\* Goroutine p is called on ListPokemon(): the one statement is the List
\* call, whose answer is returned as it is.
CallListPokemon(p) ==
    /\ pc[p] = "idle"
    /\ started < MaxCalls
    /\ started' = started + 1
    /\ entry' = [entry EXCEPT ![p] = "ListPokemon"]
    /\ \E dbOK \in BOOLEAN :
         \E got \in List(store, dbOK) :
            result' = [result EXCEPT ![p] = got]
    /\ calls' = [calls EXCEPT ![p] = <<Call("List", <<>>)>>]
    /\ pc' = [pc EXCEPT ![p] = "done"]
    /\ UNCHANGED <<store, nextID, freq, req, present, existing, externalData,
                   createErr, overlapped, xvars>>

\* The caller has taken the result: the goroutine is free for the next
\* request, and the locals of the finished call are gone.
Return(p) ==
    /\ pc[p] = "done"
    /\ pc' = [pc EXCEPT ![p] = "idle"]
    /\ entry' = [entry EXCEPT ![p] = "none"]
    /\ freq' = [freq EXCEPT ![p] = NoFlexible]
    /\ req' = [req EXCEPT ![p] = NoRequest]
    /\ present' = [present EXCEPT ![p] = FALSE]
    /\ existing' = [existing EXCEPT ![p] = NoResult]
    /\ externalData' = [externalData EXCEPT ![p] = NoFetch]
    /\ createErr' = [createErr EXCEPT ![p] = Nothing]
    /\ result' = [result EXCEPT ![p] = NoResult]
    /\ calls' = [calls EXCEPT ![p] = <<>>]
    /\ overlapped' = [overlapped EXCEPT ![p] = FALSE]
    /\ UNCHANGED <<store, nextID, started, xvars>>

Next ==
    \E p \in Procs :
        \/ \E r \in Requests : CallCreatePokemon(p, r)
        \/ \E f \in FlexibleRequests : CallCreatePokemonFlexible(p, f)
        \/ DoGetByName(p)
        \/ DoGetPokemonData(p)
        \/ DoCreate(p)
        \/ \E id \in 1..nextID : CallGetPokemon(p, id)
        \/ CallListPokemon(p)
        \/ Return(p)

Spec == Init /\ [][Next]_vars

\* Each collaborator call that has been made returns: a goroutine that
\* stands at a call is not left there for ever.
CollaboratorsReturn ==
    \A p \in Procs :
        /\ WF_vars(DoGetByName(p))
        /\ WF_vars(DoGetPokemonData(p))
        /\ WF_vars(DoCreate(p))

SpecFair == Spec /\ CollaboratorsReturn

-----------------------------------------------------------------------------
(* extractPokemonName on its own, over every request of the bounded shapes *)

ExtractInputs ==
    { Flexible(n, "fire", "", m) :
        n \in StringsUpTo(MaxLen),
        m \in {NilMap} \cup { Map(a, b) : a \in MapValues(MaxLen),
                                          b \in MapValues(MaxLen) } }

InitExtract ==
    /\ store = {}
    /\ nextID = 1
    /\ pc = [p \in Procs |-> "idle"]
    /\ entry = [p \in Procs |-> "none"]
    /\ freq = [p \in Procs |-> NoFlexible]
    /\ req = [p \in Procs |-> NoRequest]
    /\ present = [p \in Procs |-> FALSE]
    /\ existing = [p \in Procs |-> NoResult]
    /\ externalData = [p \in Procs |-> NoFetch]
    /\ createErr = [p \in Procs |-> Nothing]
    /\ result = [p \in Procs |-> NoResult]
    /\ calls = [p \in Procs |-> <<>>]
    /\ started = 0
    /\ overlapped = [p \in Procs |-> FALSE]
    /\ xin \in ExtractInputs
    /\ xout = <<>>
    /\ xpc = "input"

RunExtract ==
    /\ xpc = "input"
    /\ xout' = extractPokemonName(xin)
    /\ xpc' = "done"
    /\ UNCHANGED <<store, nextID, pc, entry, freq, req, present, existing,
                   externalData, createErr, result, calls, started, overlapped,
                   xin>>

SpecExtract == InitExtract /\ [][RunExtract]_vars

-----------------------------------------------------------------------------
(* GetPokemonData on its own, over every identifier and every answer of the
   remote side *)

ClientStatuses == {StatusOK, StatusNotFound, StatusInternalServerError}

ClientInputs ==
    { [identifier |-> i, remote |-> Remote(t, c, d, e)] :
        i \in StringsUpTo(MaxLen), t \in BOOLEAN, c \in ClientStatuses,
        d \in BOOLEAN, e \in CatalogEntries \cup {NoData} }

InitClient ==
    /\ store = {}
    /\ nextID = 1
    /\ pc = [p \in Procs |-> "idle"]
    /\ entry = [p \in Procs |-> "none"]
    /\ freq = [p \in Procs |-> NoFlexible]
    /\ req = [p \in Procs |-> NoRequest]
    /\ present = [p \in Procs |-> FALSE]
    /\ existing = [p \in Procs |-> NoResult]
    /\ externalData = [p \in Procs |-> NoFetch]
    /\ createErr = [p \in Procs |-> Nothing]
    /\ result = [p \in Procs |-> NoResult]
    /\ calls = [p \in Procs |-> <<>>]
    /\ started = 0
    /\ overlapped = [p \in Procs |-> FALSE]
    /\ xin \in ClientInputs
    /\ xout = <<>>
    /\ xpc = "input"

\* One call of GetPokemonData: the one httpClient.Get on the URL, and the
\* result made of its answer.
RunClient ==
    /\ xpc = "input"
    /\ xout' = [requests |-> <<RequestURL(xin.identifier)>>,
                got |-> GetPokemonData(xin.identifier, xin.remote)]
    /\ xpc' = "done"
    /\ UNCHANGED <<store, nextID, pc, entry, freq, req, present, existing,
                   externalData, createErr, result, calls, started, overlapped,
                   xin>>

SpecClient == InitClient /\ [][RunClient]_vars

-----------------------------------------------------------------------------
(* pokemonHandler: what each endpoint writes for what its service call
   returned *)

StatusCreated == 201
StatusBadRequest == 400
StatusConflict == 409

ErrInvalidID == <<"invalid Pokemon ID">>

\* What ShouldBindJSON reports on a body it rejects.
ErrBinding == <<"binding failed">>

\* c.JSON(status, gin.H{"error": message}) and c.JSON(status, pokemon)
ErrorJSON(status, message) ==
    [status |-> status, error |-> message, pokemon |-> Nothing]

RecordJSON(status, pokemon) ==
    [status |-> status, error |-> <<>>, pokemon |-> pokemon]

\* A request body: its JSON parses or not, and what it binds to.
Body(json, r) == [json |-> json, req |-> r]

\* c.ShouldBindJSON(&req) on a FlexiblePokemonRequest: the body parses and
\* type1, the one field with binding:"required", is not empty.
ShouldBindJSON(body) == body.json /\ body.req.Type1 # ""

\* The create handler as it would be with the missing name answered as a
\* bad request
CreatePokemonFlexibleHandlerNameAsBadRequest(body, service) ==
    IF ~ShouldBindJSON(body)
    THEN [response |-> ErrorJSON(StatusBadRequest, ErrBinding),
          called |-> <<>>]
    ELSE [response |->
            IF service.err # Nothing
            THEN IF service.err[1] = ErrDuplicateName
                 THEN ErrorJSON(StatusConflict, service.err[1])
                 ELSE IF service.err[1] = ErrNameRequired
                 THEN ErrorJSON(StatusBadRequest, service.err[1])
                 ELSE ErrorJSON(StatusInternalServerError, service.err[1])
            ELSE RecordJSON(StatusCreated, service.pokemon),
          called |-> <<body.req>>]

\* pokemonHandler.CreatePokemonFlexible, service being what the call of
\* h.service.CreatePokemonFlexible returns.  [response, called]
CreatePokemonFlexibleHandler(body, service) ==
    IF ~ShouldBindJSON(body)
    THEN [response |-> ErrorJSON(StatusBadRequest, ErrBinding),
          called |-> <<>>]
    ELSE [response |->
            IF service.err # Nothing
            THEN IF service.err[1] = ErrDuplicateName
                 THEN ErrorJSON(StatusConflict, service.err[1])
                 ELSE ErrorJSON(StatusInternalServerError, service.err[1])
            ELSE RecordJSON(StatusCreated, service.pokemon),
          called |-> <<body.req>>]

DigitChars == {Digits[k] : k \in DOMAIN Digits}

\* The digits without their leading zeros (one digit is always left)
RECURSIVE StripZeros(_)
StripZeros(s) ==
    IF Len(s) > 1 /\ Head(s) = "0" THEN StripZeros(Tail(s)) ELSE s

DigitValue(c) == CHOOSE k \in 0..9 : Digits[k + 1] = c

\* a <= b for two digit strings of one length
RECURSIVE DigitsLE(_, _)
DigitsLE(a, b) ==
    IF a = <<>> THEN TRUE
    ELSE IF Head(a) # Head(b) THEN DigitValue(Head(a)) < DigitValue(Head(b))
    ELSE DigitsLE(Tail(a), Tail(b))

\* 1<<32 - 1, the largest value of bit size 32
MaxUint32 == <<"4", "2", "9", "4", "9", "6", "7", "2", "9", "5">>

\* ParseUint as it would be with a leading sign accepted
ParseUintSigned(s) ==
    LET t == IF s # <<>> /\ Head(s) = "-" THEN Tail(s) ELSE s
    IN  IF t = <<>> \/ \E i \in DOMAIN t : t[i] \notin DigitChars
        THEN [ok |-> FALSE, value |-> <<>>]
        ELSE LET n == StripZeros(t)
             IN  IF Len(n) > Len(MaxUint32)
                    \/ (Len(n) = Len(MaxUint32) /\ ~DigitsLE(n, MaxUint32))
                 THEN [ok |-> FALSE, value |-> <<>>]
                 ELSE [ok |-> TRUE, value |-> n]

\* strconv.ParseUint(s, 10, 32): a syntax error on the empty string and on
\* any character that is not a digit (a sign too), a range error above
\* 1<<32 - 1; the value is written by its digits.  [ok, value]
ParseUint(s) ==
    IF s = <<>> \/ \E i \in DOMAIN s : s[i] \notin DigitChars
    THEN [ok |-> FALSE, value |-> <<>>]
    ELSE LET n == StripZeros(s)
         IN  IF Len(n) > Len(MaxUint32)
                \/ (Len(n) = Len(MaxUint32) /\ ~DigitsLE(n, MaxUint32))
             THEN [ok |-> FALSE, value |-> <<>>]
             ELSE [ok |-> TRUE, value |-> n]

\* pokemonHandler.GetPokemon, service being what the call of
\* h.service.GetPokemon returns.  [response, called]
GetPokemonHandler(idParam, service) ==
    LET id == ParseUint(idParam)
    IN  IF ~id.ok
        THEN [response |-> ErrorJSON(StatusBadRequest, ErrInvalidID),
              called |-> <<>>]
        ELSE [response |->
                IF service.err # Nothing
                THEN IF service.err[1] = ErrNotFound
                     THEN ErrorJSON(StatusNotFound, service.err[1])
                     ELSE ErrorJSON(StatusInternalServerError, service.err[1])
                ELSE RecordJSON(StatusOK, service.pokemon),
              called |-> <<id.value>>]

\* The bodies a client may post: one that does not parse, one without
\* type1, and the flexible requests.
Bodies ==
    {Body(FALSE, NoFlexible), Body(TRUE, Flexible(<<"a">>, "", "", NilMap))}
        \cup {Body(TRUE, f) : f \in FlexibleRequests}

\* The records a create call may return
CreatedRecords ==
    {[NewPokemon(r, e) EXCEPT !.ID = 1] : r \in Requests, e \in CatalogEntries}

\* What CreatePokemonFlexible may return: the record, or one of its errors
\* with no record.
ServiceCreateResults ==
    {Pair(Nothing, <<ErrNameRequired>>), Pair(Nothing, <<ErrDuplicateName>>)}
        \cup {FetchFailed(GetPokemonData(<<"A">>, r).err) :
                r \in {a \in RemoteAnswers : ~a.transportOK \/ ~a.decodable}}
        \cup {CreateReturns(row, e) :
                row \in CreatedRecords,
                e \in {Nothing, <<ErrUniqueViolation>>, <<ErrDatabase>>}}

\* What GetPokemon may return: the row, "pokemon not found", or the error
\* of the database.
ServiceGetResults ==
    {GetByID(t, id, dbOK) :
        t \in {{}} \cup {{row} : row \in CreatedRecords},
        id \in {1, 2}, dbOK \in BOOLEAN}

IDChars == {"0", "1", "a", "-", "+"}

RECURSIVE IDStringsUpTo(_)
IDStringsUpTo(n) ==
    IF n = 1 THEN {<<c>> : c \in IDChars}
    ELSE LET shorter == IDStringsUpTo(n - 1)
         IN  shorter \cup {Append(t, c) : t \in shorter, c \in IDChars}

\* The :id parameters a client may send: the short strings over IDChars
\* and the values about 1<<32.
IDParams ==
    IDStringsUpTo(MaxLen) \cup
    { MaxUint32,
      <<"0">> \o MaxUint32,
      <<"4", "2", "9", "4", "9", "6", "7", "2", "9", "6">>,
      <<"4", "2", "9", "5", "0", "0", "0", "0", "0", "0">>,
      <<"1", "0", "0", "0", "0", "0", "0", "0", "0", "0", "0">>,
      <<"2", "1", "4", "7", "4", "8", "3", "6", "4", "8">> }

HandlerInputs ==
    { [endpoint |-> "create", body |-> b, idParam |-> <<>>, service |-> r] :
        b \in Bodies, r \in ServiceCreateResults }
    \cup
    { [endpoint |-> "get", body |-> Body(FALSE, NoFlexible), idParam |-> i,
       service |-> r] :
        i \in IDParams, r \in ServiceGetResults }

InitHandler ==
    /\ store = {}
    /\ nextID = 1
    /\ pc = [p \in Procs |-> "idle"]
    /\ entry = [p \in Procs |-> "none"]
    /\ freq = [p \in Procs |-> NoFlexible]
    /\ req = [p \in Procs |-> NoRequest]
    /\ present = [p \in Procs |-> FALSE]
    /\ existing = [p \in Procs |-> NoResult]
    /\ externalData = [p \in Procs |-> NoFetch]
    /\ createErr = [p \in Procs |-> Nothing]
    /\ result = [p \in Procs |-> NoResult]
    /\ calls = [p \in Procs |-> <<>>]
    /\ started = 0
    /\ overlapped = [p \in Procs |-> FALSE]
    /\ xin \in HandlerInputs
    /\ xout = <<>>
    /\ xpc = "input"

\* POST /api/v1/pokemon
RunCreatePokemonFlexibleHandler ==
    /\ xpc = "input"
    /\ xin.endpoint = "create"
    /\ xout' = CreatePokemonFlexibleHandler(xin.body, xin.service)
    /\ xpc' = "done"
    /\ UNCHANGED <<store, nextID, pc, entry, freq, req, present, existing,
                   externalData, createErr, result, calls, started, overlapped,
                   xin>>

\* GET /api/v1/pokemon/:id
RunGetPokemonHandler ==
    /\ xpc = "input"
    /\ xin.endpoint = "get"
    /\ xout' = GetPokemonHandler(xin.idParam, xin.service)
    /\ xpc' = "done"
    /\ UNCHANGED <<store, nextID, pc, entry, freq, req, present, existing,
                   externalData, createErr, result, calls, started, overlapped,
                   xin>>

NextHandler == RunCreatePokemonFlexibleHandler \/ RunGetPokemonHandler

SpecHandler == InitHandler /\ [][NextHandler]_vars

-----------------------------------------------------------------------------
(* Properties of the create workflow *)

Made(p, op) == \E i \in DOMAIN calls[p] : calls[p][i].op = op

Succeeded(p) ==
    /\ pc[p] = "done"
    /\ Made(p, "Create")
    /\ result[p].err = Nothing
    /\ result[p].pokemon # Nothing

DuplicateRejected(p) ==
    /\ pc[p] = "done"
    /\ result[p] = Pair(Nothing, <<ErrDuplicateName>>)
    /\ ~Made(p, "GetPokemonData")
    /\ ~Made(p, "Create")

\* C1, as stated: a call whose request name is the name of a row that is in
\* the table when its GetByName runs returns the duplicate-name error and a
\* nil record, and calls neither GetPokemonData nor Create.
C1_DuplicateWheneverPresent ==
    \A p \in Procs : present[p] => DuplicateRejected(p)

\* C1, amended: a call whose request name is the name of a row that is in
\* the table when its GetByName runs, and whose GetByName does not fail with
\* a database error, returns the duplicate-name error and a nil record, and
\* calls neither GetPokemonData nor Create.
C1_DuplicateWhenLookupAnswers ==
    \A p \in Procs :
        (present[p] /\ existing[p].err # <<ErrDatabase>>)
            => DuplicateRejected(p)

C1_Witness ==
    \E p \in Procs :
        /\ present[p]
        /\ existing[p].err = Nothing
        /\ result[p].err = <<ErrDuplicateName>>
        /\ calls[p] = <<Call("GetByName", req[p].Name)>>

\* C2: a flexible request whose name resolves to the empty string returns
\* the missing-name error and a nil record, and its call makes no
\* collaborator call at all.
C2_MissingNameNoCalls ==
    \A p \in Procs :
        (entry[p] = "CreatePokemonFlexible"
            /\ extractPokemonName(freq[p]) = <<>>)
        => /\ pc[p] = "done"
           /\ result[p] = Pair(Nothing, <<ErrNameRequired>>)
           /\ calls[p] = <<>>

C2_Witness ==
    \E p \in Procs :
        /\ entry[p] = "CreatePokemonFlexible"
        /\ freq[p].Name = <<>>
        /\ freq[p].Pokemon.nil
        /\ result[p].err = <<ErrNameRequired>>

\* C3: the record a successful create returns has the catalog entry's name,
\* height, weight and base experience and the request's Type1 and Type2,
\* whatever the request's name was.
C3_RecordFromCatalogAndRequest ==
    \A p \in Procs :
        Succeeded(p) =>
            LET r == result[p].pokemon[1]
                e == externalData[p].data[1]
            IN  /\ r.Name = e.Name
                /\ r.Height = e.Height
                /\ r.Weight = e.Weight
                /\ r.BaseExp = e.BaseExperience
                /\ r.Type1 = req[p].Type1
                /\ r.Type2 = req[p].Type2
                /\ \A i \in DOMAIN e.Types :
                        r.Type1 # e.Types[i] /\ r.Type2 # e.Types[i]

C3_Witness ==
    \E p \in Procs :
        /\ Succeeded(p)
        /\ req[p].Name # externalData[p].data[1].Name
        /\ result[p].pokemon[1].Name = externalData[p].data[1].Name
        /\ result[p].pokemon[1].Type2 = "flying"

\* C4: when GetPokemonData returns an error, of whatever kind, the call
\* returns a nil record and the error "failed to fetch Pokemon data: "
\* followed by that error's message, and Create is not called.
C4_FetchFailureWrapped ==
    \A p \in Procs :
        externalData[p].err # Nothing =>
            /\ pc[p] = "done"
            /\ result[p].pokemon = Nothing
            /\ result[p].err = <<FetchPrefix \o externalData[p].err[1]>>
            /\ ~Made(p, "Create")

C4_Witness ==
    \E p, q \in Procs :
        /\ externalData[p].err =
              << <<"pokemon '", "a", "' not found">> >>
        /\ result[p].err =
              << <<"failed to fetch Pokemon data: ",
                   "pokemon '", "a", "' not found">> >>
        /\ externalData[q].err =
              << <<"failed to make request to PokeAPI: ",
                   "context deadline exceeded">> >>
        /\ pc[q] = "done"

\* C5: when repository.Create returns an error, the call returns the error
\* "failed to save Pokemon: " followed by that error's message, and a nil
\* record.
C5_SaveFailureWrapped ==
    \A p \in Procs :
        createErr[p] # Nothing =>
            /\ pc[p] = "done"
            /\ result[p].pokemon = Nothing
            /\ result[p].err = <<SavePrefix \o createErr[p][1]>>

C5_Witness ==
    \E p \in Procs :
        /\ createErr[p] = <<ErrDatabase>>
        /\ Made(p, "Create")
        /\ result[p].err = << <<"failed to save Pokemon: ", "database error">> >>

\* C6: no two rows of the table have the same name, in any state any
\* interleaving of the create calls reaches.
C6_NamesUnique ==
    \A r1, r2 \in store : r1.Name = r2.Name => r1 = r2

C6_Witness ==
    \E p, q \in Procs :
        /\ p # q
        /\ overlapped[p] /\ overlapped[q]
        /\ ~present[p] /\ ~present[q]
        /\ Made(p, "Create") /\ Made(q, "Create")
        /\ externalData[p].data = externalData[q].data
        /\ Succeeded(p)
        /\ createErr[q] = <<ErrUniqueViolation>>
        /\ Cardinality(store) = 1

PassedCheck(p) ==
    /\ pc[p] \in {"GetPokemonData", "Create", "done"}
    /\ result[p].err # <<ErrDuplicateName>>

\* C7: the pre-check reads the table only, so it does not exclude a second
\* call on the same name: every call whose GetByName ran while no row of
\* its name was in the table passes the check, also when another call on
\* the same name has passed it and has not written yet.  The witness is the
\* interleaving in which two such calls both go on to GetPokemonData and to
\* Create.
C7_CheckReadsTableOnly ==
    \A p \in Procs :
        (Made(p, "GetByName") /\ ~present[p]) => PassedCheck(p)

C7_Witness ==
    \E p, q \in Procs :
        /\ p # q
        /\ overlapped[p] /\ overlapped[q]
        /\ entry[p] = "CreatePokemon" /\ entry[q] = "CreatePokemon"
        /\ Made(p, "Create") /\ Made(q, "Create")
        /\ req[p].Name = req[q].Name
        /\ ~present[p] /\ ~present[q]
        /\ existing[p].err = <<ErrNotFound>>
        /\ existing[q].err = <<ErrNotFound>>
        /\ calls[p] = <<Call("GetByName", req[p].Name),
                        Call("GetPokemonData", req[p].Name),
                        Call("Create", externalData[p].data[1].Name)>>
        /\ calls[q] = <<Call("GetByName", req[q].Name),
                        Call("GetPokemonData", req[q].Name),
                        Call("Create", externalData[q].data[1].Name)>>

SameCatalogName(p, q) ==
    /\ p # q
    /\ overlapped[p] /\ overlapped[q]
    /\ Made(p, "Create") /\ Made(q, "Create")
    /\ externalData[p].data[1].Name = externalData[q].data[1].Name

\* C8, as stated: of the create calls the catalog answers with one name, at
\* most one succeeds, and every other one that reached Create is rejected
\* by the unique index and returns the persistence error and no record.
C8_OthersRejectedByUniqueIndex ==
    \A p, q \in Procs :
        (SameCatalogName(p, q) /\ Succeeded(p)) =>
            /\ ~Succeeded(q)
            /\ createErr[q] = <<ErrUniqueViolation>>
            /\ result[q] =
                 Pair(Nothing, <<SavePrefix \o ErrUniqueViolation>>)

\* C8, amended: of the create calls the catalog answers with one name, at
\* most one succeeds, and every other one that reached Create is rejected
\* by the store, by its unique index or by a database error, and returns
\* the persistence error and no record.
C8_OthersRejectedByStore ==
    \A p, q \in Procs :
        (SameCatalogName(p, q) /\ Succeeded(p)) =>
            /\ result[p].pokemon[1] \in store
            /\ ~Succeeded(q)
            /\ createErr[q] \in {<<ErrUniqueViolation>>, <<ErrDatabase>>}
            /\ result[q] = Pair(Nothing, <<SavePrefix \o createErr[q][1]>>)

C8_Witness ==
    \E p, q \in Procs :
        /\ SameCatalogName(p, q)
        /\ Succeeded(p)
        /\ ~present[q]
        /\ result[q] =
             Pair(Nothing, << <<"failed to save Pokemon: ",
                    "duplicate key value violates unique constraint">> >>)

-----------------------------------------------------------------------------
(* Properties of extractPokemonName *)

Normalize(s) == ToLower(TrimSpace(s))

IsString(v) == v.kind = "string"

\* The precedence as C9 states it: the top-level name when it is non-empty
\* after trimming, else the nested name when it is a string, else the nested
\* pokemon string, else the empty string.
StatedPrecedence(input) ==
    IF Normalize(input.Name) # <<>> THEN Normalize(input.Name)
    ELSE IF ~input.Pokemon.nil /\ IsString(input.Pokemon.name)
         THEN Normalize(input.Pokemon.name.str)
    ELSE IF ~input.Pokemon.nil /\ IsString(input.Pokemon.pokemon)
         THEN Normalize(input.Pokemon.pokemon.str)
    ELSE <<>>

\* C9: extractPokemonName returns the normalized top-level name when that is
\* non-empty after trimming and lowercasing, otherwise the normalized nested
\* name when that is a string, otherwise the normalized nested pokemon
\* string, otherwise the empty string.
C9_PrecedenceAsStated ==
    xpc = "done" => xout = StatedPrecedence(xin)

\* The sources of a name in their order of precedence, normalized
Sources(input) ==
    <<Normalize(input.Name)>>
    \o (IF ~input.Pokemon.nil /\ IsString(input.Pokemon.name)
        THEN <<Normalize(input.Pokemon.name.str)>> ELSE <<>>)
    \o (IF ~input.Pokemon.nil /\ IsString(input.Pokemon.pokemon)
        THEN <<Normalize(input.Pokemon.pokemon.str)>> ELSE <<>>)

\* C10: a lower-precedence source is consulted whenever every higher one is
\* absent or empty after trimming, so the result is the first source that
\* is non-empty, and a request with a usable name in some source never
\* resolves to the empty string.
C10_FallsThroughEmptySources ==
    xpc = "done" =>
        LET src == Sources(xin)
        IN  /\ \A i \in DOMAIN src :
                  (src[i] # <<>> /\ \A j \in 1..(i - 1) : src[j] = <<>>)
                      => xout = src[i]
            /\ (\E i \in DOMAIN src : src[i] # <<>>) => xout # <<>>

-----------------------------------------------------------------------------
(* Properties of the names the create workflow reads and stores *)

\* The step in which p's GetByName call runs and returns
GetByNameStepOf(p) == pc[p] = "GetByName" /\ pc'[p] # "GetByName"

\* C11: the name CreatePokemon passes to repository.GetByName is the
\* trimmed, lowercased request name, so that a request whose name differs
\* from a stored name only in case or surrounding whitespace is answered
\* with the duplicate-name error, on CreatePokemon and on
\* CreatePokemonFlexible.
C11_LookupByNormalizedName ==
    [][\A p \in Procs :
         GetByNameStepOf(p) =>
            /\ calls'[p][1] = Call("GetByName", Normalize(req[p].Name))
            /\ ((\E r \in store : r.Name = Normalize(req[p].Name))
                  /\ existing'[p].err # <<ErrDatabase>>)
               => result'[p] = Pair(Nothing, <<ErrDuplicateName>>)]_vars

\* A request that carries the name x in one place and nothing in the others
CarriesOnly(input, x) ==
    \/ input = Flexible(x, input.Type1, input.Type2, NilMap)
    \/ input = Flexible(<<>>, input.Type1, input.Type2, Map(Str(x), Absent))
    \/ input = Flexible(<<>>, input.Type1, input.Type2, Map(Absent, Str(x)))

\* The request with every name it carries replaced by its normalized form
NormalizedRequest(input) ==
    LET norm(v) == IF IsString(v) THEN Str(Normalize(v.str)) ELSE v
    IN  Flexible(Normalize(input.Name), input.Type1, input.Type2,
                 [input.Pokemon EXCEPT !.name = norm(@), !.pokemon = norm(@)])

C13_StoredNamesNormalized ==
    \A r \in store : r.Name # <<>> /\ r.Name = Normalize(r.Name)

\* C14: when GetByName returns an error, "not found" or any other, the
\* call goes on to GetPokemonData with the request name; the lookup error
\* does not end the call and is not what the call returns.
C14_LookupErrorProceeds ==
    \A p \in Procs :
        existing[p].err # Nothing =>
            /\ pc[p] \in {"GetPokemonData", "Create", "done"}
            /\ pc[p] # "GetPokemonData" =>
                   /\ Len(calls[p]) >= 2
                   /\ calls[p][2] = Call("GetPokemonData", req[p].Name)
            /\ result[p].err # existing[p].err
            /\ result[p].err # <<ErrDuplicateName>>

C14_Witness ==
    \E p, q \in Procs :
        /\ existing[p].err = <<ErrDatabase>>
        /\ Made(p, "GetPokemonData")
        /\ pc[p] = "done"
        /\ existing[q].err = <<ErrNotFound>>
        /\ Made(q, "GetPokemonData")

Ops(p) == [i \in DOMAIN calls[p] |-> calls[p][i].op]

IsPrefix(s, t) == Len(s) <= Len(t) /\ s = SubSeq(t, 1, Len(s))

\* C15: within one create call each collaborator is called at most once
\* and in the order GetByName, GetPokemonData, Create: GetPokemonData only
\* after the lookup has returned, Create only after a fetch that succeeded,
\* and a step that failed is not tried again.
C15_CallOrder ==
    \A p \in Procs :
        /\ entry[p] \in {"CreatePokemon", "CreatePokemonFlexible"} =>
               IsPrefix(Ops(p), <<"GetByName", "GetPokemonData", "Create">>)
        /\ Made(p, "GetPokemonData") =>
               existing[p] \in {Pair(Nothing, <<ErrNotFound>>),
                                Pair(Nothing, <<ErrDatabase>>)}
        /\ Made(p, "Create") =>
               externalData[p].err = Nothing /\ externalData[p].data # Nothing
        /\ (externalData[p].err # Nothing \/ createErr[p] # Nothing) =>
               pc[p] = "done"

C15_Witness ==
    \E p, q \in Procs :
        /\ Ops(p) = <<"GetByName", "GetPokemonData", "Create">>
        /\ createErr[p] # Nothing
        /\ Ops(q) = <<"GetByName", "GetPokemonData">>
        /\ externalData[q].err # Nothing
        /\ pc[q] = "done"

-----------------------------------------------------------------------------
(* Properties of the stored rows, GetPokemon and ListPokemon *)

\* C16: a row, once in the table, stays in it with the same id, name,
\* types, height, weight and base experience over every step of create,
\* get and list calls in any interleaving.
C16_RecordsNeverChange == [][\A r \in store : r \in store']_vars

C16_Witness ==
    \E p, q \in Procs :
        /\ Succeeded(p)
        /\ result[p].pokemon[1] \in store
        /\ Made(q, "Create")
        /\ createErr[q] = <<ErrUniqueViolation>>
        /\ Cardinality(store) = 1

\* The step in which p runs GetPokemon(id)
GetPokemonStepOf(p, id) ==
    /\ pc[p] = "idle"
    /\ pc'[p] = "done"
    /\ calls'[p] = <<Call("GetByID", Decimal(id))>>

\* C17 as stated: GetPokemon(id) returns the row of that id when there is
\* one and otherwise no record with "pokemon not found"; it makes no call
\* but the lookup by id and leaves the table as it was.
C17_PassthroughAsStated ==
    [][\A p \in Procs : \A id \in 1..nextID :
         GetPokemonStepOf(p, id) =>
            /\ store' = store
            /\ externalData'[p] = NoFetch
            /\ LET rows == {r \in store : r.ID = id}
               IN  result'[p] \in
                     IF rows = {} THEN {Pair(Nothing, <<ErrNotFound>>)}
                     ELSE {Pair(<<r>>, Nothing) : r \in rows}]_vars

\* C17, amended: GetPokemon(id) returns what the lookup by id returns: the
\* row of that id when there is one, no record with "pokemon not found" when
\* there is none, and no record with the database's error when the lookup
\* fails; it makes no call but the lookup and leaves the table as it was.
C17_PassthroughWhenLookupAnswers ==
    [][\A p \in Procs : \A id \in 1..nextID :
         GetPokemonStepOf(p, id) =>
            /\ store' = store
            /\ externalData'[p] = NoFetch
            /\ LET rows == {r \in store : r.ID = id}
               IN  result'[p] \in
                     {Pair(Nothing, <<ErrDatabase>>)} \cup
                     (IF rows = {} THEN {Pair(Nothing, <<ErrNotFound>>)}
                      ELSE {Pair(<<r>>, Nothing) : r \in rows})]_vars

C17_Witness ==
    \E p \in Procs :
        /\ entry[p] = "GetPokemon"
        /\ pc[p] = "done"
        /\ result[p].err = Nothing
        /\ result[p].pokemon \in {<<r>> : r \in store}

\* The step in which p runs ListPokemon()
ListPokemonStepOf(p) ==
    /\ pc[p] = "idle"
    /\ pc'[p] = "done"
    /\ calls'[p] = <<Call("List", <<>>)>>

\* The create calls that return their record in this step
NewlySucceeded == {p \in Procs : ~Succeeded(p) /\ Succeeded(p)'}

\* Each row of the table once, and nothing else
ListsExactly(list, table) ==
    /\ Len(list) = Cardinality(table)
    /\ {list[i] : i \in DOMAIN list} = table

\* C18 as stated: the table gains one row per create that succeeds and
\* none otherwise, and ListPokemon returns each row of the table once and
\* nothing else, with no error; on the empty table that is the empty list.
C18_ListsStoreAsStated ==
    [][/\ Cardinality(store') = Cardinality(store) + Cardinality(NewlySucceeded)
       /\ \A p \in Procs :
            ListPokemonStepOf(p) =>
               /\ store' = store
               /\ result'[p].err = Nothing
               /\ ListsExactly(result'[p].pokemon, store)]_vars

\* C18, amended: the table gains one row per create that succeeds and none
\* otherwise, and ListPokemon, when the query runs, returns each row of the
\* table once and nothing else, with no error; on the empty table that is
\* the empty list.  When the query fails it returns no list and the
\* database's error.
C18_ListsStoreWhenQueryRuns ==
    [][/\ Cardinality(store') = Cardinality(store) + Cardinality(NewlySucceeded)
       /\ \A p \in Procs :
            ListPokemonStepOf(p) =>
               /\ store' = store
               /\ \/ result'[p] = Pair(Nothing, <<ErrDatabase>>)
                  \/ /\ result'[p].err = Nothing
                     /\ ListsExactly(result'[p].pokemon, store)]_vars

C18_Witness ==
    \E p \in Procs :
        /\ entry[p] = "ListPokemon"
        /\ pc[p] = "done"
        /\ store # {}
        /\ result[p].err = Nothing
        /\ ListsExactly(result[p].pokemon, store)

-----------------------------------------------------------------------------
(* Properties of GetPokemonData *)

\* The first part of an error message
Head1(err) == IF err = Nothing THEN "" ELSE err[1][1]

\* C19: GetPokemonData gives each answer of the remote side one result, by
\* the first of these that applies: no response (transport failure or
\* timeout), the "failed to make request to PokeAPI" error; status 404,
\* "pokemon '<normalized identifier>' not found"; any other status but 200,
\* "PokeAPI returned status <code>"; status 200 with a body that does not
\* decode, the "failed to decode PokeAPI response" error; status 200 with a
\* body that decodes, the entry and no error.  With an error the entry is
\* nil.
C19_OutcomesClassifiedInOrder ==
    xpc = "done" =>
        LET r == xin.remote
            got == xout.got
        IN  /\ got.err # Nothing => got.data = Nothing
            /\ IF ~r.transportOK
               THEN Head1(got.err) = "failed to make request to PokeAPI: "
               ELSE IF r.status = StatusNotFound
               THEN got.err = << <<"pokemon '">> \o Normalize(xin.identifier)
                                   \o <<"' not found">> >>
               ELSE IF r.status # StatusOK
               THEN got.err = << <<"PokeAPI returned status ">>
                                   \o Decimal(r.status) >>
               ELSE IF ~r.decodable
               THEN Head1(got.err) = "failed to decode PokeAPI response: "
               ELSE got = [data |-> <<r.data>>, err |-> Nothing]

C19_Witness ==
    /\ xpc = "done"
    /\ xin.identifier = <<" ", "A">>
    /\ xin.remote.transportOK
    /\ xin.remote.status = StatusNotFound
    /\ xin.remote.decodable
    /\ xout.got = [data |-> Nothing,
                   err |-> << <<"pokemon '", "a", "' not found">> >>]

\* C20: for every identifier GetPokemonData makes exactly one request, to
\* <baseURL>/pokemon/<n> with n the identifier trimmed and lowercased, so
\* that identifiers differing only in case or surrounding whitespace are
\* requested by the same URL.
C20_OneRequestOnNormalizedPath ==
    xpc = "done" =>
        /\ xout.requests =
             <<BaseURL \o <<"/pokemon/">> \o Normalize(xin.identifier)>>
        /\ \A other \in StringsUpTo(MaxLen) :
              Normalize(other) = Normalize(xin.identifier) =>
                  RequestURL(other) = xout.requests[1]

C20_Witness ==
    /\ xpc = "done"
    /\ xin.identifier = <<"A", " ">>
    /\ ~xin.remote.transportOK
    /\ xout.requests = << <<"https://pokeapi.co/api/v2", "/pokemon/", "a">> >>

-----------------------------------------------------------------------------
(* Properties of the handlers *)

\* C21: the create endpoint answers 400, without calling the service, a
\* body that fails binding; 201 with the record a create that succeeded;
\* 409 exactly when the service error's message is "pokemon with this name
\* already exists"; and 500 every other service error: the missing name,
\* the wrapped catalog failure, the wrapped rejection by the unique index.
C21_CreateStatuses ==
    (xpc = "done" /\ xin.endpoint = "create") =>
        LET bound == xin.body.json /\ xin.body.req.Type1 # ""
            err == xin.service.err
            out == xout.response
        IN  /\ ~bound => out.status = 400 /\ xout.called = <<>>
            /\ bound => xout.called = <<xin.body.req>>
            /\ (bound /\ err = Nothing) =>
                   /\ out.status = 201
                   /\ out.pokemon = xin.service.pokemon
            /\ out.status = 409 <=>
                   (bound /\ err =
                       << <<"pokemon with this name already exists">> >>)
            /\ (bound /\ err # Nothing /\ out.status # 409) =>
                   /\ out.status = 500
                   /\ out.error = err[1]
            /\ (bound /\ err \in {<<ErrNameRequired>>,
                                  <<SavePrefix \o ErrUniqueViolation>>,
                                  <<FetchPrefix \o
                                      <<"failed to make request to PokeAPI: ">>
                                      \o ErrTransport>>}) =>
                   out.status = 500

C21_Witness ==
    /\ xpc = "done"
    /\ xin.endpoint = "create"
    /\ ShouldBindJSON(xin.body)
    /\ xin.service.err = <<SavePrefix \o ErrUniqueViolation>>
    /\ xout.response.status = 500
    /\ xout.called # <<>>

\* The value of a string of digits
RECURSIVE Number(_)
Number(s) ==
    IF s = <<>> THEN 0
    ELSE 10 * Number(SubSeq(s, 1, Len(s) - 1)) + DigitValue(s[Len(s)])

\* s is the decimal writing of an integer from 0 to 4294967295, told by its
\* part above the last five digits and by those five.
IsUint32Decimal(s) ==
    /\ s # <<>>
    /\ \A i \in DOMAIN s :
          s[i] \in {"0", "1", "2", "3", "4", "5", "6", "7", "8", "9"}
    /\ LET cut == IF Len(s) > 5 THEN Len(s) - 5 ELSE 0
           hi == Number(SubSeq(s, 1, cut))
           lo == Number(SubSeq(s, cut + 1, Len(s)))
       IN  hi < 42949 \/ (hi = 42949 /\ lo <= 67295)

\* C22: the get endpoint answers 400 "invalid Pokemon ID", without calling
\* the service, an id that is not the decimal writing of an unsigned 32-bit
\* integer; 404 a service error whose message is "pokemon not found"; 500
\* any other service error; and 200 with the record otherwise.
C22_GetStatuses ==
    (xpc = "done" /\ xin.endpoint = "get") =>
        LET err == xin.service.err
            out == xout.response
        IN  IF ~IsUint32Decimal(xin.idParam)
            THEN /\ out = ErrorJSON(400, <<"invalid Pokemon ID">>)
                 /\ xout.called = <<>>
            ELSE /\ Len(xout.called) = 1
                 /\ out.status =
                      IF err = << <<"pokemon not found">> >> THEN 404
                      ELSE IF err # Nothing THEN 500
                      ELSE 200
                 /\ err = Nothing => out.pokemon = xin.service.pokemon
                 /\ err # Nothing => out.error = err[1]

C22_Witness ==
    /\ xpc = "done"
    /\ xin.endpoint = "get"
    /\ xin.idParam = <<"0">> \o MaxUint32
    /\ xin.service.err = <<ErrDatabase>>
    /\ xout.response.status = 500
    /\ xout.called = <<MaxUint32>>

-----------------------------------------------------------------------------
(* Properties of the store seen through the create calls *)

\* C23: the record a successful create returns is the row the table holds,
\* with an id that is not zero and that no other row has, and a lookup by
\* that id and a lookup by its name both give that row with the same
\* fields.
C23_CreatedRecordRetrievable ==
    \A p \in Procs :
        Succeeded(p) =>
            LET row == result[p].pokemon[1]
            IN  /\ row.ID # 0
                /\ row \in store
                /\ \A o \in store : o.ID = row.ID => o = row
                /\ GetByID(store, row.ID, TRUE) = Pair(<<row>>, Nothing)
                /\ GetByName(store, row.Name, TRUE) = Pair(<<row>>, Nothing)

C23_Witness ==
    \E p, q \in Procs :
        /\ Succeeded(p)
        /\ Succeeded(q)
        /\ result[p].pokemon[1].ID # result[q].pokemon[1].ID
        /\ store = {result[p].pokemon[1], result[q].pokemon[1]}

\* The step in which p's repository.Create call runs and returns
CreateStepOf(p) == pc[p] = "Create" /\ pc'[p] = "done"

\* C24: repository.Create with a record whose name is the name of a row of
\* the table returns an error and leaves the table as it was: the same
\* rows, each unchanged.
C24_ConflictingCreateRejected ==
    [][\A p \in Procs :
         (CreateStepOf(p)
            /\ \E r \in store : r.Name = externalData[p].data[1].Name) =>
               /\ createErr'[p] # Nothing
               /\ store' = store]_vars

C24_Witness ==
    \E p \in Procs :
        /\ pc[p] = "done"
        /\ Made(p, "Create")
        /\ createErr[p] = <<ErrUniqueViolation>>
        /\ \E r \in store :
              /\ r.Name = externalData[p].data[1].Name
              /\ r.Type1 # req[p].Type1
        /\ Cardinality(store) = 1

-----------------------------------------------------------------------------
(* CreatePokemonFlexible against CreatePokemon *)

\* The step in which p is called on CreatePokemonFlexible(f)
FlexibleCallStepOf(p, f) ==
    /\ pc[p] = "idle"
    /\ entry'[p] = "CreatePokemonFlexible"
    /\ freq'[p] = f

\* The calls CreatePokemon has made on req[p] when it has returned, by what
\* its collaborators answered
CallsOfCreatePokemon(p) ==
    <<Call("GetByName", req[p].Name)>>
      \o (IF existing[p].err = Nothing /\ existing[p].pokemon # Nothing
          THEN <<>>
          ELSE <<Call("GetPokemonData", req[p].Name)>>
                 \o (IF externalData[p].err # Nothing THEN <<>>
                     ELSE <<Call("Create", externalData[p].data[1].Name)>>))

\* What CreatePokemon returns on req[p], by what its collaborators answered
ReturnOfCreatePokemon(p) ==
    IF existing[p].err = Nothing /\ existing[p].pokemon # Nothing
    THEN Pair(Nothing, <<ErrDuplicateName>>)
    ELSE IF externalData[p].err # Nothing
    THEN Pair(Nothing, <<FetchPrefix \o externalData[p].err[1]>>)
    ELSE IF createErr[p] # Nothing
    THEN Pair(Nothing, <<SavePrefix \o createErr[p][1]>>)
    ELSE LET d == externalData[p].data[1]
         IN  Pair(<<[ID |-> result[p].pokemon[1].ID, Name |-> d.Name,
                     Type1 |-> req[p].Type1, Type2 |-> req[p].Type2,
                     Height |-> d.Height, Weight |-> d.Weight,
                     BaseExp |-> d.BaseExperience]>>, Nothing)

\* C25: a CreatePokemonFlexible call whose resolved name n is not empty is
\* a CreatePokemon call on {Name: n, Type1, Type2} of the flexible request:
\* it starts CreatePokemon on that request with nothing called or written
\* before, and whichever of the two the call came through, the calls made
\* and the result returned are the same function of the request and of what
\* the collaborators answered.
C25_FlexibleIsCreateOnResolvedName ==
    /\ [][\A p \in Procs : \A f \in FlexibleRequests :
            (FlexibleCallStepOf(p, f) /\ extractPokemonName(f) # <<>>) =>
               /\ req'[p] = [Name |-> extractPokemonName(f),
                             Type1 |-> f.Type1, Type2 |-> f.Type2]
               /\ pc'[p] = "GetByName"
               /\ calls'[p] = <<>>
               /\ result'[p] = NoResult
               /\ store' = store]_vars
    /\ [](\A p \in Procs :
            (pc[p] = "done" /\ req[p] # NoRequest
               /\ entry[p] \in {"CreatePokemon", "CreatePokemonFlexible"}) =>
                  /\ calls[p] = CallsOfCreatePokemon(p)
                  /\ result[p] = ReturnOfCreatePokemon(p))

C25_Witness ==
    \E p \in Procs :
        /\ entry[p] = "CreatePokemonFlexible"
        /\ freq[p].Name = <<"A">>
        /\ req[p] = [Name |-> <<"a">>, Type1 |-> "fire", Type2 |-> "flying"]
        /\ Succeeded(p)
        /\ result[p].pokemon[1].Type2 = "flying"

-----------------------------------------------------------------------------
(* Termination of the create calls *)

\* The five ways a create call ends
Outcomes(r) ==
    <<r.err = Nothing /\ r.pokemon # Nothing,
      r = Pair(Nothing, <<ErrNameRequired>>),
      r = Pair(Nothing, <<ErrDuplicateName>>),
      r.pokemon = Nothing /\ Head1(r.err) = "failed to fetch Pokemon data: ",
      r.pokemon = Nothing /\ Head1(r.err) = "failed to save Pokemon: ">>

\* C26: when every collaborator call returns, every create call returns (no
\* goroutine stays inside a create call for ever, and a call is left only
\* by returning), and what it returns is exactly one of: a record with no
\* error, or no record with the missing-name, the duplicate-name, the
\* fetch-failed or the save-failed error; a record and an error never come
\* together.
C26_CreateTerminatesInOneOutcome ==
    /\ \A p \in Procs : []<>(~Running(p))
    /\ [][\A p \in Procs :
            (Running(p) /\ ~Running(p)') => pc'[p] = "done"]_vars
    /\ [](\A p \in Procs :
            (pc[p] = "done"
               /\ entry[p] \in {"CreatePokemon", "CreatePokemonFlexible"}) =>
                  /\ Cardinality({i \in 1..5 : Outcomes(result[p])[i]}) = 1
                  /\ ~(result[p].pokemon # Nothing /\ result[p].err # Nothing))

C26_Witness ==
    \E p, q \in Procs :
        /\ pc[p] = "done"
        /\ Outcomes(result[p])[4]
        /\ pc[q] = "done"
        /\ Outcomes(result[q])[5]

-----------------------------------------------------------------------------
(* What a failed create call leaves behind *)

\* C27: a create call that ends in an error (missing name, duplicate name,
\* fetch failed, save failed) has written nothing: each of its steps
\* leaves the table as it was, so the table differs from what it was when
\* the call began only by the rows other calls have written.  The one step
\* of a create call that changes the table is the step that returns the
\* record.
C27_FailedCreateWritesNothing ==
    [][\A p \in Procs :
         (pc'[p] # pc[p] /\ ~Succeeded(p)') => store' = store]_vars

C27_Witness ==
    \E p, q \in Procs :
        /\ p # q
        /\ pc[p] = "done"
        /\ createErr[p] = <<ErrDatabase>>
        /\ result[p].err = <<SavePrefix \o ErrDatabase>>
        /\ pc[q] = "done"
        /\ externalData[q].err # Nothing
        /\ result[q].err # Nothing
        /\ store = {}

-----------------------------------------------------------------------------
(* The pre-check against the unique index, one call at a time *)

\* p's create call ran with no other create call inside its span, reached
\* repository.Create, and the catalog's name was the name it had looked up.
SequentialSameName(p) ==
    /\ Made(p, "Create")
    /\ ~overlapped[p]
    /\ externalData[p].data[1].Name = req[p].Name

\* C28 as stated: a create call that ran alone, passed the pre-check and
\* got from the catalog the very name it had looked up is never rejected by
\* the unique index; alone, a rejection by the unique index happens only
\* when the catalog's name differs from the name looked up.
C28_SequentialNeverRejected ==
    \A p \in Procs :
        SequentialSameName(p) => createErr[p] # <<ErrUniqueViolation>>

\* C28, amended: a create call that ran alone, whose pre-check lookup
\* answered "pokemon not found", and that got from the catalog the very name
\* it had looked up is never rejected by the unique index; alone, a
\* rejection by the unique index happens only when the catalog's name
\* differs from the name looked up or the lookup failed.
C28_SequentialNeverRejectedWhenLookupAnswers ==
    \A p \in Procs :
        (SequentialSameName(p) /\ existing[p].err = <<ErrNotFound>>) =>
            createErr[p] # <<ErrUniqueViolation>>

C28_Witness ==
    \E p \in Procs :
        /\ SequentialSameName(p)
        /\ existing[p].err = <<ErrNotFound>>
        /\ Succeeded(p)
        /\ started = 2
        /\ Cardinality(store) = 2

=============================================================================
